---- MODULE Spec2Model ----
\* A model of the APON-INFO-BOT Telegram bot (src/main.py, src/config.py):
\* the user record store, the membership check, the upstream client, the
\* field mapper and the update handlers of the dispatcher.
EXTENDS Integers, Sequences, FiniteSets, TLC

VARIABLES
    users,    \* db.users: user id -> [verified, last_check, joined_at]
    file,     \* content of DATABASE_FILE on disk
    now,      \* wall clock, datetime.now(), in seconds
    buttons,  \* per user: callback payloads of the buttons the bot has shown
    ev,       \* what the last handled update (or store call) did
    call,     \* last call of a pure function: its inputs and its result
    tasks     \* the update-handling tasks in flight, when handlers interleave

vars == <<users, file, now, buttons, ev, call, tasks>>

----------------------------------------------------------------------------
\* Configuration (src/config.py)

CHECK_INTERVAL == 300

REQUIRED_CHANNELS == <<"developer_apon_07", "fftigerteamguild">>

\* stats_command, line 433: a user is active for 24 hours after a check
ActiveWindow == 86400

\* The owner's user id (config.py:9), one of the users of the model
OWNER_ID == "u1"

\* The smallest and largest accepted identifier length (main.py:524)
MinUidLen == 5
MaxUidLen == 15

\* The fields format_profile renders, and API_MAPPING["player"] for them.
\* A source path is the sequence of its dot-separated parts: a path without
\* a dot has one part, the empty string has none.
ProfileFields ==
    {"nickname", "level", "likes", "region", "guild", "br_rank", "cs_rank",
     "badges", "honor_score"}

PLAYER_MAP == [f \in ProfileFields |-> <<f>>]

----------------------------------------------------------------------------
\* Bounds of the model

Users == {"u1", "u2"}

\* The clock stops advancing here.
MaxTime == 600

\* How far the clock moves between two updates: up to the re-verification
\* interval exactly, or past it.
TickSteps == {CHECK_INTERVAL, CHECK_INTERVAL + 1}

----------------------------------------------------------------------------
\* Text. A string is the sequence of its characters; a character is a
\* one-character string, except the non-ASCII ones, named by code point.

AsciiDigits == {"0", "1", "2", "3", "4", "5", "6", "7", "8", "9"}

\* Characters outside 0-9 for which str.isdigit() is true:
\* ARABIC-INDIC DIGIT TWO and SUPERSCRIPT TWO.
UnicodeDigits == {"U+0662", "U+00B2"}

Whitespace == {" ", "\n"}

Rep(c, n) == [i \in 1..n |-> c]

\* str.strip(): leading and trailing whitespace removed
RECURSIVE lstrip(_)
lstrip(s) ==
    IF s # <<>> /\ Head(s) \in Whitespace THEN lstrip(Tail(s)) ELSE s

RECURSIVE rstrip(_)
rstrip(s) ==
    IF s # <<>> /\ s[Len(s)] \in Whitespace
    THEN rstrip(SubSeq(s, 1, Len(s) - 1))
    ELSE s

strip(s) == rstrip(lstrip(s))

\* str.isdigit(): non-empty and every character is a digit character
isdigit(s) ==
    /\ Len(s) > 0
    /\ \A i \in 1..Len(s) : s[i] \in AsciiDigits \cup UnicodeDigits

\* s.startswith(p)
startswith(s, p) == Len(s) >= Len(p) /\ SubSeq(s, 1, Len(p)) = p

\* s.replace(p, ""): every non-overlapping occurrence of p removed, left to right
RECURSIVE remove_all(_, _)
remove_all(s, p) ==
    IF s = <<>> THEN <<>>
    ELSE IF startswith(s, p) THEN remove_all(SubSeq(s, Len(p) + 1, Len(s)), p)
    ELSE <<Head(s)>> \o remove_all(Tail(s), p)

RefreshPrefix == <<"r", "e", "f", "r", "e", "s", "h", "_">>

\* The callback payloads (main.py:140, 145, 551, 552)
VERIFY_NOW == <<"v", "e", "r", "i", "f", "y", "_", "n", "o", "w">>
HELP == <<"h", "e", "l", "p">>
NEW_SEARCH == <<"n", "e", "w", "_", "s", "e", "a", "r", "c", "h">>
RefreshPayload(uid) == RefreshPrefix \o uid

----------------------------------------------------------------------------
\* The user record store (class UserDatabase)

NoUsers == [u \in {} |-> [verified |-> FALSE, last_check |-> 0, joined_at |-> 0]]

\* A file that does not parse: load_users returns {} for it.
Corrupt == [ok |-> FALSE, data |-> NoUsers]
FileOf(us) == [ok |-> TRUE, data |-> us]

\* What a write of the file can do: succeed, fail before the file is opened
\* (the old content stays), fail after open(..., 'w') truncated it.
WriteOutcomes == {"ok", "open_failed", "write_failed"}

\* load_users giving every record the last_check of a record without one
load_users_default_stamps(f) ==
    IF f.ok THEN [x \in DOMAIN f.data |-> [f.data[x] EXCEPT !.last_check = 0]]
    ELSE NoUsers

load_users(f) == IF f.ok THEN f.data ELSE NoUsers

save_users(us, f, w) ==
    CASE w = "ok" -> FileOf(us)
      [] w = "open_failed" -> f
      [] w = "write_failed" -> Corrupt

\* is_verified with the age compared by >= : a record exactly CHECK_INTERVAL
\* old counts as stale
is_verified_ge(us, u, t) ==
    IF u \notin DOMAIN us THEN FALSE
    ELSE IF t - us[u].last_check >= CHECK_INTERVAL THEN FALSE
    ELSE us[u].verified

is_verified(us, u, t) ==
    IF u \notin DOMAIN us THEN FALSE
    ELSE IF t - us[u].last_check > CHECK_INTERVAL THEN FALSE
    ELSE us[u].verified

\* set_verified stamping joined_at anew on every call
set_verified_restamps(us, u, flag, t) ==
    [x \in DOMAIN us \cup {u} |->
        IF x = u
        THEN [verified |-> flag, last_check |-> t, joined_at |-> t]
        ELSE us[x]]

\* set_verified stamping last_check of every record, not only the user's
set_verified_touches_all(us, u, flag, t) ==
    [x \in DOMAIN us \cup {u} |->
        IF x = u
        THEN [verified |-> flag,
              last_check |-> t,
              joined_at |-> IF u \in DOMAIN us THEN us[u].joined_at ELSE t]
        ELSE [us[x] EXCEPT !.last_check = t]]

set_verified(us, u, flag, t) ==
    [x \in DOMAIN us \cup {u} |->
        IF x = u
        THEN [verified |-> flag,
              last_check |-> t,
              joined_at |-> IF u \in DOMAIN us THEN us[u].joined_at ELSE t]
        ELSE us[x]]

remove_user(us, u) == [x \in DOMAIN us \ {u} |-> us[x]]

get_user_stats(us) ==
    [total |-> Cardinality(DOMAIN us),
     verified |-> Cardinality({u \in DOMAIN us : us[u].verified})]

----------------------------------------------------------------------------
\* The membership check (check_membership)

\* What bot.get_chat_member answers for one channel: the member's status,
\* or "error" when the query raises.
ChannelAnswers == {"member", "restricted", "left", "kicked", "error"}

AnswerSets == [1..Len(REQUIRED_CHANNELS) -> ChannelAnswers]

\* check_membership skipping a channel whose query raises (fail-open)
RECURSIVE check_from_skips_errors(_, _, _)
check_from_skips_errors(answers, i, queried) ==
    IF i > Len(REQUIRED_CHANNELS) THEN [ok |-> TRUE, queried |-> queried]
    ELSE IF answers[i] \in {"left", "kicked"}
        THEN [ok |-> FALSE, queried |-> Append(queried, REQUIRED_CHANNELS[i])]
    ELSE check_from_skips_errors(answers, i + 1, Append(queried, REQUIRED_CHANNELS[i]))

\* The loop of check_membership from channel i on; queried lists the
\* channels asked so far, in order.
RECURSIVE check_from(_, _, _)
check_from(answers, i, queried) ==
    IF i > Len(REQUIRED_CHANNELS) THEN [ok |-> TRUE, queried |-> queried]
    ELSE IF answers[i] = "error"
        THEN [ok |-> FALSE, queried |-> Append(queried, REQUIRED_CHANNELS[i])]
    ELSE IF answers[i] \in {"left", "kicked"}
        THEN [ok |-> FALSE, queried |-> Append(queried, REQUIRED_CHANNELS[i])]
    ELSE check_from(answers, i + 1, Append(queried, REQUIRED_CHANNELS[i]))

check_membership(answers) == check_from(answers, 1, <<>>)

----------------------------------------------------------------------------
\* JSON values, tagged by type

JNull == [t |-> "null"]
JBool(b) == [t |-> "bool", b |-> b]
JNum(n) == [t |-> "num", n |-> n]
\* A string value is the sequence of its pieces (characters, or longer runs of
\* literal text); the empty string is the empty sequence.
JStr(s) == [t |-> "str", s |-> s]
JList(n) == [t |-> "list", len |-> n]
JObj(o) == [t |-> "obj", o |-> o]

IsObj(v) == v.t = "obj"
HasKey(v, k) == k \in DOMAIN v.o

\* Python truth value of a JSON value
Truthy(v) ==
    CASE v.t = "null" -> FALSE
      [] v.t = "bool" -> v.b
      [] v.t = "num" -> v.n # 0
      [] v.t = "str" -> v.s # <<>>
      [] v.t = "list" -> v.len > 0
      [] v.t = "obj" -> DOMAIN v.o # {}

\* dict.get(k, default)
Get(v, k, default) == IF HasKey(v, k) THEN v.o[k] ELSE default

\* API_MAPPING (config.py:44-47)
SUCCESS_KEY == "success"
DATA_KEY == "data"
ERROR_KEY == "error"

----------------------------------------------------------------------------
\* The upstream client (fetch_player_data)

\* str(response.status_code)
str_int(n) ==
    CASE n = 200 -> <<"2", "0", "0">>
      [] n = 404 -> <<"4", "0", "4">>
      [] n = 500 -> <<"5", "0", "0">>

\* s[:n]
prefix(s, n) == SubSeq(s, 1, IF Len(s) < n THEN Len(s) ELSE n)

\* Sample payloads of the upstream API
Player == JObj([nickname |-> JStr(<<"Apon">>), level |-> JNum(7)])
Nested == JObj([player |-> JObj([rank |-> JStr(<<"Gold">>)]), nickname |-> JNull])
Blanks == JObj([nickname |-> JStr(<<>>), level |-> JStr(<<"N/A">>), player |-> JNum(3)])

DataValues ==
    {Player, Nested, Blanks, JObj(<<>>), JNull, JList(0), JList(2),
     JStr(<<"ok">>), JNum(0)}

ErrorValues == {JStr(<<"Player not found">>), JNull}

SuccessFlags == {JBool(TRUE), JBool(FALSE), JNum(1), JStr(<<>>)}

\* The JSON objects the upstream answers with: any of the success, data and
\* error keys present or absent.
Bodies ==
    LET WithData(o) == {o} \cup {[k \in DOMAIN o \cup {DATA_KEY} |->
                IF k = DATA_KEY THEN d ELSE o[k]] : d \in DataValues}
        WithError(o) == {o} \cup {[k \in DOMAIN o \cup {ERROR_KEY} |->
                IF k = ERROR_KEY THEN e ELSE o[k]] : e \in ErrorValues}
        Flagged == {<<>>} \cup {[k \in {SUCCESS_KEY} |-> f] : f \in SuccessFlags}
    IN  {JObj(o) : o \in UNION {UNION {WithError(d) : d \in WithData(f)} : f \in Flagged}}

\* The text of an exception, str(e)
ExcTexts == {<<"b", "o", "o", "m">>, Rep("x", 51)}

\* What requests.get(...) and response.json() can do: raise one of the
\* exception classes fetch_player_data catches, or answer with a status and
\* a body; a 200 body that is no JSON makes response.json() raise, a
\* RequestException or a ValueError depending on the requests version.
UpstreamOutcomes ==
    {[kind |-> "timeout"], [kind |-> "connection"]}
    \cup {[kind |-> k, text |-> x] : k \in {"request", "other"}, x \in ExcTexts}
    \cup {[kind |-> "http", status |-> n, body |-> JNull] : n \in {404, 500}}
    \cup {[kind |-> "http", status |-> 200, body |-> b] : b \in Bodies \cup {JList(1), JNull}}
    \cup {[kind |-> "http", status |-> 200, body |-> [t |-> "notjson", raises |-> k]] :
            k \in {"request", "other"}}

Failure(e) == [success |-> FALSE, error |-> e]

TIMEOUT_ERROR == JStr(<<"Timeout - Server is slow">>)
CONNECTION_ERROR == JStr(<<"Connection error - API might be down">>)
REQUEST_ERROR(x) == JStr(<<"Request failed: ">> \o prefix(x, 50))
UNEXPECTED_ERROR(x) == JStr(<<"Unexpected error: ">> \o prefix(x, 50))
API_ERROR(n) == JStr(<<"API Error: ">> \o str_int(n))
FORMAT_ERROR == JStr(<<"Invalid API response format">>)
UNKNOWN_ERROR == JStr(<<"Unknown error from API">>)

\* The text of the exception response.json() raises
JSON_ERROR_TEXT == <<"Expecting value: line 1 column 1 (char 0)">>

\* The classification without the fallback to the whole response when the
\* data key is absent or empty
classify_without_fallback(status, body) ==
    IF status = 200
    THEN IF body.t = "notjson"
         THEN IF body.raises = "request"
              THEN Failure(REQUEST_ERROR(JSON_ERROR_TEXT))
              ELSE Failure(UNEXPECTED_ERROR(JSON_ERROR_TEXT))
         ELSE IF IsObj(body)
         THEN IF Truthy(Get(body, SUCCESS_KEY, JBool(FALSE)))
              THEN [success |-> TRUE,
                    data |-> Get(body, DATA_KEY, JObj(<<>>)),
                    raw |-> body]
              ELSE Failure(Get(body, ERROR_KEY, UNKNOWN_ERROR))
         ELSE Failure(FORMAT_ERROR)
    ELSE Failure(API_ERROR(status))

\* Lines 207-242: the classification of a response
classify(status, body) ==
    IF status = 200
    THEN IF body.t = "notjson"
         THEN IF body.raises = "request"
              THEN Failure(REQUEST_ERROR(JSON_ERROR_TEXT))
              ELSE Failure(UNEXPECTED_ERROR(JSON_ERROR_TEXT))
         ELSE IF IsObj(body)
         THEN IF Truthy(Get(body, SUCCESS_KEY, JBool(FALSE)))
              THEN LET player_data == Get(body, DATA_KEY, JObj(<<>>))
                   IN  [success |-> TRUE,
                        data |-> IF ~Truthy(player_data) THEN body ELSE player_data,
                        raw |-> body]
              ELSE Failure(Get(body, ERROR_KEY, UNKNOWN_ERROR))
         ELSE Failure(FORMAT_ERROR)
    ELSE Failure(API_ERROR(status))

fetch_player_data(uid, out) ==
    CASE out.kind = "http" -> classify(out.status, out.body)
      [] out.kind = "timeout" -> Failure(TIMEOUT_ERROR)
      [] out.kind = "connection" -> Failure(CONNECTION_ERROR)
      [] out.kind = "request" -> Failure(REQUEST_ERROR(out.text))
      [] out.kind = "other" -> Failure(UNEXPECTED_ERROR(out.text))

----------------------------------------------------------------------------
\* The field mapper (format_profile)

NA == JStr(<<"N/A">>)

\* An AttributeError raised inside format_profile
Raised == [t |-> "raised"]

\* value if value not in [None, "", "N/A"] else "N/A"
or_sentinel(value) == IF value \in {JNull, JStr(<<>>), NA} THEN NA ELSE value

\* Lines 276-282: the walk along the parts of a dotted key, from part i on
RECURSIVE walk(_, _, _)
walk(value, parts, i) ==
    IF i > Len(parts) THEN or_sentinel(value)
    ELSE IF IsObj(value) THEN walk(Get(value, parts[i], NA), parts, i + 1)
    ELSE NA

\* Lines 269-286. data.get(key, "N/A") of the simple-key branch raises when
\* data is no dict.
get_value(data, key) ==
    IF key = <<>> THEN NA
    ELSE IF Len(key) > 1 THEN walk(data, key, 1)
    ELSE IF ~IsObj(data) THEN Raised
    ELSE or_sentinel(Get(data, key[1], NA))

None == [ok |-> FALSE]
Profile(uid, fields) == [ok |-> TRUE, uid |-> uid, fields |-> fields]

format_profile(api_result, uid, player_map) ==
    IF ~api_result.success THEN None
    ELSE LET data == api_result.data
             values == [f \in ProfileFields |-> get_value(data, player_map[f])]
         IN  IF \E f \in ProfileFields : values[f] = Raised
             THEN None
             ELSE Profile(uid, values)

\* Configurations of API_MAPPING["player"]: the shipped one, and ones whose
\* paths address nested structure.
PlayerMaps ==
    {PLAYER_MAP,
     [PLAYER_MAP EXCEPT !["br_rank"] = <<"player", "rank">>],
     [PLAYER_MAP EXCEPT !["br_rank"] = <<"player", "rank", "tier">>,
                        !["guild"] = <<>>],
     [f \in ProfileFields |-> <<"player", f>>],
     [f \in ProfileFields |-> IF f = "nickname" THEN <<"nickname", "first">> ELSE <<"stats", f>>]}

----------------------------------------------------------------------------
\* The dispatcher: messages, inputs and the record of the last update

\* What a user types: candidate identifiers
TypedTexts ==
    {Rep("1", MinUidLen - 1), Rep("1", MinUidLen), Rep("7", MaxUidLen),
     Rep("7", MaxUidLen + 1), <<"1", "2", "a", "b">>, <<"1", "2", "a", "4", "5">>,
     Rep("U+0662", MinUidLen), <<" ">> \o Rep("1", MinUidLen) \o <<"\n">>}

\* The upstream outcomes the dispatcher is driven with: one of each class
DispatchOutcomes ==
    {[kind |-> "timeout"], [kind |-> "connection"],
     [kind |-> "request", text |-> <<"b", "o", "o", "m">>],
     [kind |-> "http", status |-> 500, body |-> JNull],
     [kind |-> "http", status |-> 200,
      body |-> JObj([success |-> JBool(TRUE), data |-> Player])],
     [kind |-> "http", status |-> 200,
      body |-> JObj([success |-> JBool(TRUE), data |-> JList(2)])],
     [kind |-> "http", status |-> 200,
      body |-> JObj([success |-> JBool(FALSE), error |-> JStr(<<"Player not found">>)])]}

\* The membership answers the dispatcher is driven with: a member of both
\* channels, one channel left, one query failing
DispatchAnswers ==
    {<<"member", "member">>, <<"member", "left">>, <<"error", "member">>}

\* The inputs of the specification of two users
FewTexts == {Rep("1", MinUidLen), <<"1", "2", "a", "b">>, Rep("7", MaxUidLen + 1)}
FewOutcomes ==
    {[kind |-> "timeout"],
     [kind |-> "http", status |-> 200,
      body |-> JObj([success |-> JBool(TRUE), data |-> Player])]}
FewAnswers == {<<"member", "member">>, <<"member", "kicked">>}

\* str(v) of a value interpolated into a message
str_of(v) ==
    CASE v.t = "str" -> v.s
      [] v.t = "null" -> <<"None">>

\* A message sent or edited: the template, the values interpolated into it
\* and the callback payloads of its inline keyboard.
Msg(kind, args, keyboard) == [kind |-> kind, args |-> args, keyboard |-> keyboard]

VerifyRequired == Msg("verify_required", <<>>, {VERIFY_NOW, HELP})

\* The keyboard under a rendered profile (main.py:549-558, 661-670)
ProfileKeyboard(uid) == {RefreshPayload(uid), NEW_SEARCH}

ProfileMsg(profile) ==
    [kind |-> "profile", args |-> <<profile.uid>>, fields |-> profile.fields,
     keyboard |-> ProfileKeyboard(profile.uid)]

\* The record of one handled update: the handler, the user, the identifier it
\* worked on, whether a membership check ran and what it gave, the identifiers
\* passed to fetch_player_data, the class of the upstream outcome, the
\* messages sent, and the value a store call returned.
Event(op, u, uid, member, fetched, upstream, sent, ret) ==
    [op |-> op, user |-> u, uid |-> uid, member |-> member, fetched |-> fetched,
     upstream |-> upstream, sent |-> sent, ret |-> ret]

Idle(op) == Event(op, "none", <<>>, "unchecked", <<>>, "none", <<>>, FALSE)

Keyboards(sent) == UNION {sent[i].keyboard : i \in 1..Len(sent)}

Shown(u, sent) == [buttons EXCEPT ![u] = @ \cup Keyboards(sent)]

\* handle_uid, lines 541-580: the fetch and the message that replaces the
\* waiting message
uid_render(uid, out) ==
    LET result == fetch_player_data(uid, out)
    IN  IF result.success
        THEN LET profile == format_profile(result, uid, PLAYER_MAP)
             IN  IF profile.ok THEN ProfileMsg(profile)
                 ELSE Msg("format_failed", <<uid>>, {})
        ELSE Msg("fetch_error", <<uid, str_of(result.error)>>, {})

\* button_handler, lines 655-688: the same for a refresh
refresh_render(uid, out) ==
    LET result == fetch_player_data(uid, out)
    IN  IF result.success
        THEN LET profile == format_profile(result, uid, PLAYER_MAP)
             IN  IF profile.ok THEN ProfileMsg(profile)
                 ELSE Msg("refresh_format_failed", <<uid>>, {})
        ELSE Msg("refresh_failed", <<uid>>, {})

\* handle_uid, lines 514-530: the validation of the identifier; "ok" or the
\* validation error it is answered with
validate_uid(uid) ==
    IF ~isdigit(uid) THEN "invalid_uid"
    ELSE IF Len(uid) < MinUidLen \/ Len(uid) > MaxUidLen THEN "invalid_length"
    ELSE "ok"

YesNo(b) == IF b THEN "yes" ELSE "no"

----------------------------------------------------------------------------
\* No lookup under way
NoLookup ==
    [pc |-> "idle", user |-> "none", uid |-> <<>>, shown |-> Msg("none", <<>>, {}),
     render |-> Msg("none", <<>>, {}), edits |-> <<>>]

\* A broadcast that is not running
NoBroadcast ==
    [pc |-> "idle", todo |-> {}, size |-> 0, cur |-> "none", tried |-> {},
     sent |-> 0, failed |-> 0, total |-> 0]

\* No task in flight: every user's handler idle, no broadcast running, and
\* no write of the file made by the last step
NoTasks ==
    [pc |-> [u \in Users |-> "idle"], bc |-> NoBroadcast, wrote |-> "none",
     lookup |-> NoLookup]

\* The state after construction: no database file yet, an empty store.
\* A handler is a coroutine: between two awaits it runs alone. The store is
\* read and written by a handler only between two awaits (set_verified and
\* save_users are synchronous), except by broadcast_command, which iterates
\* db.users across its awaits. So the handlers of Spec, SpecChat and
\* SpecOwner are one step each, and SpecTasks below takes the handlers apart
\* at their awaits. The clock moves between steps. Sends and edits of
\* messages are taken to succeed, so the except branch of handle_uid
\* (lines 582-589) is not entered: fetch_player_data and format_profile
\* catch their own exceptions.

Init ==
    /\ users = NoUsers
    /\ file = FileOf(NoUsers)
    /\ now = 0
    /\ buttons = [u \in Users |-> {}]
    /\ ev = Idle("init")
    /\ call = [fn |-> "none"]
    /\ tasks = NoTasks

\* Time passes between two updates.
Tick(d) ==
    /\ now + d <= MaxTime
    /\ now' = now + d
    /\ ev' = Idle("tick")
    /\ UNCHANGED <<users, file, buttons, call, tasks>>

\* verify_user with a store that takes the mutation back when the write fails
Verified_rolls_back(u, ok, w) ==
    /\ users' = IF w = "ok" THEN set_verified(users, u, ok, now) ELSE users
    /\ file' = save_users(users', file, w)

\* verify_user: the membership check, then the record written with its result
Verified(u, ok, w) ==
    /\ users' = set_verified(users, u, ok, now)
    /\ file' = save_users(users', file, w)

\* /start
Start(u, answers, w) ==
    LET ok == check_membership(answers).ok
    IN  /\ Verified(u, ok, w)
        /\ ev' = Event("start", u, <<>>, YesNo(ok), <<>>, "none",
                       IF ok THEN <<Msg("welcome", <<>>, {})>> ELSE <<>>, ok)
        /\ UNCHANGED <<now, buttons, call, tasks>>

\* handle_uid: a text message that is no command
HandleUid(u, text, answers, w, outs) ==
    LET uid == strip(text)
        ok == check_membership(answers).ok
        valid == validate_uid(uid)
    IN  /\ Verified(u, ok, w)
        /\ IF ~ok
           THEN /\ ev' = Event("handle_uid", u, uid, "no", <<>>, "none",
                               <<VerifyRequired>>, FALSE)
                /\ buttons' = Shown(u, <<VerifyRequired>>)
           ELSE IF valid # "ok"
           THEN /\ ev' = Event("handle_uid", u, uid, "yes", <<>>, "none",
                               <<Msg(valid, <<>>, {})>>, FALSE)
                /\ UNCHANGED buttons
           ELSE \E out \in outs :
                LET sent == <<Msg("waiting", <<uid>>, {}), uid_render(uid, out)>>
                IN  /\ ev' = Event("handle_uid", u, uid, "yes", <<uid>>, out.kind,
                                   sent, TRUE)
                    /\ buttons' = Shown(u, sent)
        /\ UNCHANGED <<now, call, tasks>>

\* button_handler, data == "verify_now", without the call of line 616
VerifyNow_without_prompt(u, answers, w) ==
    LET ok == check_membership(answers).ok
    IN  /\ VERIFY_NOW \in buttons[u]
        /\ IF ok
           THEN /\ Verified(u, TRUE, w)
                /\ ev' = Event("verify_now", u, <<>>, "yes", <<>>, "none",
                               <<Msg("verify_ok", <<>>, {})>>, TRUE)
           ELSE /\ ev' = Event("verify_now", u, <<>>, "no", <<>>, "none",
                               <<Msg("verify_failed", <<>>, {})>>, FALSE)
                /\ UNCHANGED <<users, file>>
        /\ UNCHANGED <<now, buttons, call, tasks>>

\* button_handler, data == "verify_now"
VerifyNow(u, answers, w) ==
    LET ok == check_membership(answers).ok
    IN  /\ VERIFY_NOW \in buttons[u]
        /\ IF ok
           THEN /\ Verified(u, TRUE, w)
                /\ ev' = Event("verify_now", u, <<>>, "yes", <<>>, "none",
                               <<Msg("verify_ok", <<>>, {})>>, TRUE)
                /\ UNCHANGED buttons
           ELSE /\ ev' = Event("verify_now", u, <<>>, "no", <<>>, "none",
                               <<Msg("verify_failed", <<>>, {}), VerifyRequired>>, FALSE)
                /\ buttons' = Shown(u, <<VerifyRequired>>)
                /\ UNCHANGED <<users, file>>
        /\ UNCHANGED <<now, call, tasks>>

\* button_handler with a refresh that goes through verify_user first
Button_refresh_verifies(u, data, outs) ==
    /\ data \in buttons[u]
    /\ data # VERIFY_NOW
    /\ IF data = HELP
       THEN /\ ev' = Event("help", u, <<>>, "unchecked", <<>>, "none",
                           <<Msg("help", <<>>, {})>>, FALSE)
            /\ UNCHANGED <<buttons, users, file>>
       ELSE IF data = NEW_SEARCH
       THEN /\ ev' = Event("new_search", u, <<>>, "unchecked", <<>>, "none",
                           <<Msg("new_search", <<>>, {})>>, FALSE)
            /\ UNCHANGED <<buttons, users, file>>
       ELSE IF startswith(data, RefreshPrefix)
       THEN \E out \in outs :
            LET uid == remove_all(data, RefreshPrefix)
                sent == <<Msg("refreshing", <<uid>>, {}), refresh_render(uid, out)>>
            IN  /\ ev' = Event("refresh", u, uid, "yes", <<uid>>, out.kind,
                               sent, TRUE)
                /\ buttons' = Shown(u, sent)
                /\ Verified(u, TRUE, "ok")
       ELSE /\ ev' = Event("button", u, <<>>, "unchecked", <<>>, "none", <<>>, FALSE)
            /\ UNCHANGED <<buttons, users, file>>
    /\ UNCHANGED <<now, call, tasks>>

\* button_handler, the other payloads: help, new_search, refresh_<uid>
Button(u, data, outs) ==
    /\ data \in buttons[u]
    /\ data # VERIFY_NOW
    /\ IF data = HELP
       THEN /\ ev' = Event("help", u, <<>>, "unchecked", <<>>, "none",
                           <<Msg("help", <<>>, {})>>, FALSE)
            /\ UNCHANGED buttons
       ELSE IF data = NEW_SEARCH
       THEN /\ ev' = Event("new_search", u, <<>>, "unchecked", <<>>, "none",
                           <<Msg("new_search", <<>>, {})>>, FALSE)
            /\ UNCHANGED buttons
       ELSE IF startswith(data, RefreshPrefix)
       THEN \E out \in outs :
            LET uid == remove_all(data, RefreshPrefix)
                sent == <<Msg("refreshing", <<uid>>, {}), refresh_render(uid, out)>>
            IN  /\ ev' = Event("refresh", u, uid, "unchecked", <<uid>>, out.kind,
                               sent, TRUE)
                /\ buttons' = Shown(u, sent)
       ELSE /\ ev' = Event("button", u, <<>>, "unchecked", <<>>, "none", <<>>, FALSE)
            /\ UNCHANGED buttons
    /\ UNCHANGED <<users, file, now, call, tasks>>

\* A press of one of the buttons the bot has shown to the user
Press(u, outs) == \E data \in buttons[u] : Button(u, data, outs)

\* stats_command and broadcast_command, lines 422 and 459: the gate of the
\* owner's commands
owner_gate_any(u) == TRUE

owner_gate(u) == u = OWNER_ID

\* The two denials: stats_command line 423, broadcast_command line 460
StatsDenied == Msg("access_denied", <<"This command is for owner only.">>, {})

BroadcastDenied == Msg("access_denied", <<>>, {})

\* stats_command, lines 426-434: the figures of the statistics message
stats_figures(us, t) ==
    LET st == get_user_stats(us)
    IN  [total |-> st.total, verified |-> st.verified,
         unverified |-> st.total - st.verified,
         active |-> Cardinality({x \in DOMAIN us : t - us[x].last_check < ActiveWindow})]

\* /stats
Stats(u) ==
    /\ IF ~owner_gate(u)
       THEN ev' = Event("stats", u, <<>>, "unchecked", <<>>, "none",
                        <<StatsDenied>>, FALSE)
       ELSE ev' = Event("stats", u, <<>>, "unchecked", <<>>, "none",
                        <<Msg("stats", <<>>, {})>>, stats_figures(users, now))
    /\ UNCHANGED <<users, file, now, buttons, call, tasks>>

\* broadcast_command, line 485: the records the broadcast sends to
broadcast_targets(us) == {x \in DOMAIN us : us[x].verified}

\* What a broadcast did: the chats a send was attempted to, the counts of
\* the completion report
Report(tried, sent, failed, total) ==
    [tried |-> tried, sent |-> sent, failed |-> failed, total |-> total]

\* /broadcast, handled with no other update in between; the sends to the
\* chats in failing raise and are counted as failed
Broadcast(u, has_args, failing) ==
    /\ IF ~owner_gate(u)
       THEN ev' = Event("broadcast", u, <<>>, "unchecked", <<>>, "none",
                        <<BroadcastDenied>>, FALSE)
       ELSE IF ~has_args
       THEN ev' = Event("broadcast", u, <<>>, "unchecked", <<>>, "none",
                        <<Msg("broadcast_usage", <<>>, {})>>, FALSE)
       ELSE LET targets == broadcast_targets(users)
                failed == Cardinality(targets \cap failing)
            IN  ev' = Event("broadcast", u, <<>>, "unchecked", <<>>, "none",
                            <<Msg("broadcasting", <<>>, {}),
                              Msg("broadcast_complete", <<>>, {})>>,
                            Report(targets, Cardinality(targets) - failed, failed,
                                   Cardinality(DOMAIN users)))
    /\ UNCHANGED <<users, file, now, buttons, call, tasks>>

\* db.is_verified(user_id)
IsVerified(u) ==
    /\ ev' = Event("is_verified", u, <<>>, "unchecked", <<>>, "none", <<>>,
                   is_verified(users, u, now))
    /\ UNCHANGED <<users, file, now, buttons, call, tasks>>

\* db.remove_user(user_id)
RemoveUser(u, w) ==
    /\ IF u \in DOMAIN users
       THEN /\ users' = remove_user(users, u)
            /\ file' = save_users(users', file, w)
       ELSE UNCHANGED <<users, file>>
    /\ ev' = Event("remove_user", u, <<>>, "unchecked", <<>>, "none", <<>>,
                   u \in DOMAIN users)
    /\ UNCHANGED <<now, buttons, call, tasks>>

\* db.set_verified(user_id, verified), called on its own
SetVerified(u, flag, w) ==
    /\ Verified(u, flag, w)
    /\ ev' = Event("set_verified", u, <<>>, "unchecked", <<>>, "none", <<>>, flag)
    /\ UNCHANGED <<now, buttons, call, tasks>>

\* The process is started again: UserDatabase.__init__ loads the file.
Restart ==
    /\ users' = load_users(file)
    /\ ev' = Idle("restart")
    /\ UNCHANGED <<file, now, buttons, call, tasks>>

\* The updates of the users U, with the typed texts T, the membership answers
\* A, the write outcomes W and the upstream outcomes O
Dispatch(U, T, A, W, O) ==
    \/ \E u \in U, answers \in A, w \in W : Start(u, answers, w)
    \/ \E u \in U, text \in T, answers \in A, w \in W : HandleUid(u, text, answers, w, O)
    \/ \E u \in U, answers \in A, w \in W : VerifyNow(u, answers, w)
    \/ \E u \in U : Press(u, O)

\* Two users, a disk that does not fail
Next ==
    \/ \E d \in TickSteps : Tick(d)
    \/ Dispatch(Users, FewTexts, FewAnswers, {"ok"}, FewOutcomes)

Spec == Init /\ [][Next]_vars

\* One chat, with every class of identifier and of upstream outcome
NextChat ==
    \/ \E d \in TickSteps : Tick(d)
    \/ Dispatch({"u1"}, TypedTexts, DispatchAnswers, {"ok"}, DispatchOutcomes)

SpecChat == Init /\ [][NextChat]_vars

\* The owner's commands, sent by the owner and by another user, among the
\* updates that change the verification state
OwnerCommands(U) ==
    \/ \E u \in U : Stats(u)
    \/ \E u \in U, has_args \in BOOLEAN, failing \in SUBSET Users :
            Broadcast(u, has_args, failing)

NextOwner ==
    \/ \E d \in TickSteps : Tick(d)
    \/ \E u \in Users, answers \in FewAnswers : Start(u, answers, "ok")
    \/ \E u \in Users, answers \in FewAnswers : VerifyNow(u, answers, "ok")
    \/ \E u \in Users, text \in FewTexts, answers \in FewAnswers :
            HandleUid(u, text, answers, "ok", FewOutcomes)
    \/ OwnerCommands(Users)

SpecOwner == Init /\ [][NextOwner]_vars

----------------------------------------------------------------------------
\* The handlers as tasks of one event loop, which interleave at their awaits

\* A task step that leaves the store alone
TaskStep(t) ==
    /\ tasks' = t
    /\ UNCHANGED <<users, file, now, buttons, ev, call>>

BroadcastInFlight == tasks.bc.pc \in {"confirming", "sending", "sleeping", "reporting"}

\* An update of the user arrives and its handler runs up to the await of
\* check_membership (verify_user, line 118). The updates of one chat are
\* handled one after the other.
Receive(u) ==
    /\ tasks.pc[u] = "idle"
    /\ ~(u = OWNER_ID /\ BroadcastInFlight)
    /\ TaskStep([tasks EXCEPT !.pc[u] = "checking", !.wrote = "none"])

\* verify_user, lines 118-126, with the write made before the mutation
Checked_saves_first(u, answers, w) ==
    /\ tasks.pc[u] = "checking"
    /\ users' = set_verified(users, u, check_membership(answers).ok, now)
    /\ file' = save_users(users, file, w)
    /\ tasks' = [tasks EXCEPT !.pc[u] = "replying", !.wrote = w]
    /\ UNCHANGED <<now, buttons, ev, call>>

\* verify_user, lines 118-126: the answers of the membership check are in;
\* db.set_verified mutates the store and writes the file with no await in
\* between, and the handler runs on to the await of its reply.
Checked(u, answers, w) ==
    /\ tasks.pc[u] = "checking"
    /\ Verified(u, check_membership(answers).ok, w)
    /\ tasks' = [tasks EXCEPT !.pc[u] = "replying", !.wrote = w]
    /\ UNCHANGED <<now, buttons, ev, call>>

\* The reply is sent and the handler returns.
Replied(u) ==
    /\ tasks.pc[u] = "replying"
    /\ TaskStep([tasks EXCEPT !.pc[u] = "idle", !.wrote = "none"])

\* db.remove_user(user_id) of a user with a record: no await in it. No
\* handler calls it, and it is not called while a broadcast runs.
Removed(u, w) ==
    /\ u \in DOMAIN users
    /\ ~BroadcastInFlight
    /\ users' = remove_user(users, u)
    /\ file' = save_users(users', file, w)
    /\ tasks' = [tasks EXCEPT !.wrote = w]
    /\ UNCHANGED <<now, buttons, ev, call>>

\* broadcast_command of the owner with a message, lines 454-477: up to the
\* await of the confirmation
BroadcastBegin ==
    /\ ~BroadcastInFlight
    /\ tasks.pc[OWNER_ID] = "idle"
    /\ TaskStep([tasks EXCEPT !.bc = [NoBroadcast EXCEPT !.pc = "confirming"],
                              !.wrote = "none"])

\* broadcast_command, lines 484-485 and 499-504: the for statement asks the
\* iterator of db.users.items() for the next item. The iterator is made when
\* the loop is entered; it raises RuntimeError when the dict has changed
\* size since; it gives the records in the order of the dict, which the
\* model leaves open. Records that are not flagged are passed without an
\* await; at a flagged one the handler runs to the await of send_message;
\* at the end it runs to the await of the edit of the completion report.
BroadcastNext ==
    LET bc == tasks.bc
        it == IF bc.pc = "confirming"
              THEN [bc EXCEPT !.todo = DOMAIN users,
                              !.size = Cardinality(DOMAIN users)]
              ELSE bc
        unflagged == {y \in it.todo : ~users[y].verified}
    IN  /\ bc.pc \in {"confirming", "sleeping"}
        /\ IF Cardinality(DOMAIN users) # it.size
           THEN TaskStep([tasks EXCEPT !.bc = [it EXCEPT !.pc = "crashed"],
                                      !.wrote = "none"])
           ELSE \/ \E x \in it.todo \ unflagged, passed \in SUBSET unflagged :
                     TaskStep([tasks EXCEPT
                         !.bc = [it EXCEPT !.pc = "sending", !.cur = x,
                                           !.todo = @ \ ({x} \cup passed),
                                           !.tried = @ \cup {x}],
                         !.wrote = "none"])
                \/ /\ it.todo = unflagged
                   /\ TaskStep([tasks EXCEPT
                         !.bc = [it EXCEPT !.pc = "reporting", !.todo = {},
                                           !.total = Cardinality(DOMAIN users)],
                         !.wrote = "none"])

\* broadcast_command, lines 486-496: send_message returns or raises, the
\* count is taken, and the handler runs to the await of the delay
BroadcastSent(ok) ==
    /\ tasks.bc.pc = "sending"
    /\ TaskStep([tasks EXCEPT
            !.bc = [@ EXCEPT !.pc = "sleeping",
                             !.sent = IF ok THEN @ + 1 ELSE @,
                             !.failed = IF ok THEN @ ELSE @ + 1],
            !.wrote = "none"])

\* broadcast_command, lines 499-504: the completion report is shown
BroadcastReported ==
    /\ tasks.bc.pc = "reporting"
    /\ TaskStep([tasks EXCEPT !.bc.pc = "done", !.wrote = "none"])

NextTasks ==
    \/ \E u \in Users : Receive(u)
    \/ \E u \in Users, answers \in FewAnswers, w \in WriteOutcomes :
            Checked(u, answers, w)
    \/ \E u \in Users : Replied(u)
    \/ \E u \in Users, w \in WriteOutcomes : Removed(u, w)
    \/ BroadcastBegin
    \/ BroadcastNext
    \/ \E ok \in BOOLEAN : BroadcastSent(ok)
    \/ BroadcastReported

SpecTasks == Init /\ [][NextTasks]_vars

\* One chat on a disk that can fail, and the process started again
NextFaults ==
    \/ \E d \in TickSteps : Tick(d)
    \/ Dispatch({"u1"}, FewTexts, FewAnswers, WriteOutcomes, FewOutcomes)
    \/ \E w \in WriteOutcomes : RemoveUser("u1", w)
    \/ Restart

SpecFaults == Init /\ [][NextFaults]_vars

----------------------------------------------------------------------------
\* handle_uid taken apart at the edits of the waiting message, which can raise

\* handle_uid, lines 508-580, of a member with a valid identifier: the record
\* is written, the waiting message is shown, the fetch and the formatting
\* are done, and the handler is at the await of the edit that shows the
\* result.
Lookup(u, text, answers, out) ==
    LET uid == strip(text)
    IN  /\ tasks.lookup.pc \in {"idle", "done", "raised"}
        /\ check_membership(answers).ok
        /\ validate_uid(uid) = "ok"
        /\ Verified(u, TRUE, "ok")
        /\ tasks' = [tasks EXCEPT !.lookup =
                        [pc |-> "rendering", user |-> u, uid |-> uid,
                         shown |-> Msg("waiting", <<uid>>, {}),
                         render |-> uid_render(uid, out), edits |-> <<>>]]
        /\ UNCHANGED <<now, buttons, ev, call>>

\* handle_uid with no except clause around the edit
EditReturned_without_except(ok) ==
    /\ tasks.lookup.pc = "rendering"
    /\ tasks' = [tasks EXCEPT !.lookup =
                    [@ EXCEPT !.pc = IF ok THEN "done" ELSE "raised",
                              !.shown = IF ok THEN tasks.lookup.render ELSE @,
                              !.edits = Append(@, ok)]]
    /\ buttons' = IF ok THEN Shown(tasks.lookup.user, <<tasks.lookup.render>>)
                  ELSE buttons
    /\ UNCHANGED <<users, file, now, ev, call>>

\* handle_uid, lines 560-589: wait_msg.edit_text of the result returns, and
\* the handler ends, or raises, and the handler is in its except branch at
\* the await of the edit that shows the unexpected error
EditReturned(ok) ==
    /\ tasks.lookup.pc = "rendering"
    /\ tasks' = [tasks EXCEPT !.lookup =
                    [@ EXCEPT !.pc = IF ok THEN "done" ELSE "recovering",
                              !.shown = IF ok THEN tasks.lookup.render ELSE @,
                              !.edits = Append(@, ok)]]
    /\ buttons' = IF ok THEN Shown(tasks.lookup.user, <<tasks.lookup.render>>)
                  ELSE buttons
    /\ UNCHANGED <<users, file, now, ev, call>>

\* handle_uid, lines 582-589: the edit of the except branch returns, or
\* raises, and the handler ends with the exception
RecoverReturned(ok) ==
    /\ tasks.lookup.pc = "recovering"
    /\ TaskStep([tasks EXCEPT !.lookup =
                    [@ EXCEPT !.pc = IF ok THEN "done" ELSE "raised",
                              !.shown = IF ok THEN Msg("unexpected_error", <<>>, {})
                                        ELSE @,
                              !.edits = Append(@, ok)]])

NextLookup ==
    \/ \E d \in TickSteps : Tick(d)
    \/ \E text \in FewTexts, answers \in FewAnswers, out \in DispatchOutcomes :
            Lookup("u1", text, answers, out)
    \/ \E ok \in BOOLEAN : EditReturned(ok)
    \/ \E ok \in BOOLEAN : RecoverReturned(ok)

\* An awaited edit returns or raises: the requests of the bot have timeouts.
SpecLookup ==
    /\ Init
    /\ [][NextLookup]_vars
    /\ WF_vars(\E ok \in BOOLEAN : EditReturned(ok))
    /\ WF_vars(\E ok \in BOOLEAN : RecoverReturned(ok))

\* The record store on its own, on a disk that can fail
NextStore ==
    \/ \E d \in TickSteps : Tick(d)
    \/ \E u \in Users, flag \in BOOLEAN, w \in WriteOutcomes : SetVerified(u, flag, w)
    \/ \E u \in Users, w \in WriteOutcomes : RemoveUser(u, w)
    \/ \E u \in Users : IsVerified(u)
    \/ Restart

SpecStore == Init /\ [][NextStore]_vars

----------------------------------------------------------------------------
\* The pure functions, called on their own inputs

CallCheckMembership(answers) ==
    /\ call' = [fn |-> "check_membership", answers |-> answers,
                result |-> check_membership(answers)]
    /\ UNCHANGED <<users, file, now, buttons, ev, tasks>>

CallFetch(uid, out) ==
    /\ call' = [fn |-> "fetch_player_data", uid |-> uid, out |-> out,
                result |-> fetch_player_data(uid, out)]
    /\ UNCHANGED <<users, file, now, buttons, ev, tasks>>

\* format_profile on the result of a fetch, under a configured mapping
CallFormat(uid, out, player_map) ==
    LET api_result == fetch_player_data(uid, out)
    IN  /\ call' = [fn |-> "format_profile", api_result |-> api_result,
                    player_map |-> player_map,
                    result |-> format_profile(api_result, uid, player_map)]
        /\ UNCHANGED <<users, file, now, buttons, ev, tasks>>

NextPure ==
    \/ \E answers \in AnswerSets : CallCheckMembership(answers)
    \/ \E out \in UpstreamOutcomes : CallFetch(Rep("1", MinUidLen), out)
    \/ \E out \in UpstreamOutcomes, m \in PlayerMaps :
            CallFormat(Rep("1", MinUidLen), out, m)

SpecPure == Init /\ [][NextPure]_vars

----------------------------------------------------------------------------
\* The claims

Last(q) == q[Len(q)]

\* The identifiers the specification calls valid: ^[0-9]{5,15}$
MatchesUidPattern(s) ==
    /\ Len(s) >= 5
    /\ Len(s) <= 15
    /\ \A i \in 1..Len(s) : s[i] \in AsciiDigits

\* C1: an upstream fetch is issued while handling a user's update only if
\* that user is Verified at that moment (a record that is not stale and whose
\* flag is true); no update of a user who is not Verified causes a fetch.
C1_FetchOnlyWhenVerified ==
    ev.fetched # <<>> => is_verified(users, ev.user, now)

\* C2: is_verified returns false when the user has no record, false when
\* now - last_check > CHECK_INTERVAL whatever the stored flag, and the stored
\* flag otherwise.
C2_IsVerified ==
    ev.op = "is_verified" =>
        LET u == ev.user
        IN  /\ u \notin DOMAIN users => ev.ret = FALSE
            /\ u \in DOMAIN users =>
                IF now - users[u].last_check > CHECK_INTERVAL
                THEN ev.ret = FALSE
                ELSE ev.ret = users[u].verified

\* C2 witness: a stale record whose flag is true is reported not verified.
C2_Witness ==
    /\ ev.op = "is_verified"
    /\ ev.user \in DOMAIN users
    /\ users[ev.user].verified
    /\ now - users[ev.user].last_check > CHECK_INTERVAL
    /\ ev.ret = FALSE

\* C3: set_verified(user, flag) overwrites the flag with flag, sets last_check
\* to the current time and keeps joined_at: a record it creates gets the
\* current time as joined_at, and every later call leaves joined_at as it was.
C3_SetVerified ==
    [][ev'.op = "set_verified" =>
        LET u == ev'.user
        IN  /\ u \in DOMAIN users'
            /\ users'[u].verified = ev'.ret
            /\ users'[u].last_check = now
            /\ users'[u].joined_at =
                    IF u \in DOMAIN users THEN users[u].joined_at ELSE now]_vars

\* C3 witness: after a repeated call the record still carries the earlier
\* joined_at, with a later last_check and the flag overwritten to false.
C3_Witness ==
    /\ ev.op = "set_verified"
    /\ ev.user \in DOMAIN users
    /\ users[ev.user].joined_at < users[ev.user].last_check
    /\ users[ev.user].last_check = now
    /\ ~users[ev.user].verified

\* C4: check_membership returns true only if every required channel was
\* queried, the query succeeded and the status is neither "left" nor
\* "kicked"; a failing query of any channel gives false; no channel is
\* queried twice.
C4_CheckMembership ==
    call.fn = "check_membership" =>
        LET a == call.answers
            r == call.result
        IN  /\ r.ok => /\ r.queried = REQUIRED_CHANNELS
                       /\ \A i \in DOMAIN a : a[i] \notin {"left", "kicked", "error"}
            /\ (\E i \in DOMAIN a : a[i] = "error") => ~r.ok
            /\ \A i, j \in DOMAIN r.queried : i # j => r.queried[i] # r.queried[j]

\* C4 witness: the first channel answers "member", the query of the second
\* raises, and the check gives false after one query of each.
C4_Witness ==
    /\ call.fn = "check_membership"
    /\ call.answers = <<"member", "error">>
    /\ ~call.result.ok
    /\ call.result.queried = REQUIRED_CHANNELS

\* C5: for a Verified user the typed identifier passes validation and goes to
\* the upstream fetch exactly when it matches ^[0-9]{5,15}$; every other
\* identifier is answered with a validation error.
C5_ValidationExact ==
    (ev.op = "handle_uid" /\ ev.member = "yes") =>
        IF MatchesUidPattern(ev.uid)
        THEN ev.fetched = <<ev.uid>>
        ELSE /\ ev.fetched = <<>>
             /\ Last(ev.sent).kind \in {"invalid_uid", "invalid_length"}

FailedValidation(e) ==
    /\ e.op = "handle_uid"
    /\ e.sent # <<>>
    /\ Last(e.sent).kind \in {"invalid_uid", "invalid_length"}

\* C6 as stated: handling a typed identifier that fails validation changes
\* neither the user record store nor the persisted file.
C6_InvalidNoChange ==
    [][FailedValidation(ev') => (users' = users /\ file' = file)]_vars

\* C6 as amended: handling a typed identifier that fails validation changes
\* the store only as the membership check before the validation does: the
\* sender's record gets verified = true and last_check = now and keeps its
\* joined_at (now for a new record), no other user's record changes, the file
\* is rewritten with the resulting record set when the write succeeds, no
\* upstream fetch is made and no button is shown.
C6_InvalidOnlyVerifies ==
    [][FailedValidation(ev') =>
        LET u == ev'.user
        IN  /\ DOMAIN users' = DOMAIN users \cup {u}
            /\ users'[u] =
                [verified |-> TRUE, last_check |-> now,
                 joined_at |-> IF u \in DOMAIN users THEN users[u].joined_at ELSE now]
            /\ \A x \in DOMAIN users \ {u} : users'[x] = users[x]
            /\ file' = FileOf(users')
            /\ ev'.fetched = <<>>
            /\ buttons' = buttons]_vars

\* C6 witness: an identifier failed validation for a user with an earlier
\* record, which now carries the time of this update, next to another user's
\* record with an older last_check.
C6_Witness ==
    /\ FailedValidation(ev)
    /\ users[ev.user].joined_at < users[ev.user].last_check
    /\ users[ev.user].last_check = now
    /\ \E x \in DOMAIN users \ {ev.user} : users[x].last_check < now

\* C7: every identifier passed to the upstream fetch, by a typed identifier
\* or by a refresh, consists of the digits 0-9 only and has length 5 to 15.
C7_FetchOnlyValid ==
    \A i \in DOMAIN ev.fetched : MatchesUidPattern(ev.fetched[i])

Contains(q, x) == \E i \in DOMAIN q : q[i] = x

\* C8: fetch classifies every upstream outcome into a LookupResult. A status
\* other than 200 gives an error holding the status code; a 200 object whose
\* success flag is false or absent gives the upstream's error message (the
\* fixed "Unknown error from API" when it supplies none); a 200 object whose
\* success flag is true gives the object under the data key, or the whole
\* response when the data key is absent or empty; timeout, connection failure
\* and other request failure give errors that differ from class to class.
C8_FetchClassifies ==
    call.fn = "fetch_player_data" =>
        LET o == call.out
            r == call.result
            b == o.body
            Object == o.kind = "http" /\ o.status = 200 /\ b.t = "obj"
            Flag == IF "success" \in DOMAIN b.o THEN b.o["success"] ELSE JBool(FALSE)
            Classes == {"timeout", "connection", "request"}
        IN  /\ r.success \in BOOLEAN
            /\ DOMAIN r = IF r.success THEN {"success", "data", "raw"}
                          ELSE {"success", "error"}
            /\ (o.kind = "http" /\ o.status # 200) =>
                    /\ ~r.success
                    /\ \E i \in 1..Len(r.error.s) :
                         SubSeq(r.error.s, i, Len(r.error.s)) = str_int(o.status)
            /\ (Object /\ Flag = JBool(FALSE)) =>
                    /\ ~r.success
                    /\ r.error = IF "error" \in DOMAIN b.o THEN b.o["error"]
                                 ELSE JStr(<<"Unknown error from API">>)
            /\ (Object /\ Flag = JBool(TRUE)) =>
                    /\ r.success
                    /\ ("data" \notin DOMAIN b.o \/ b.o["data"] = JObj(<<>>)) => r.data = b
                    /\ ("data" \in DOMAIN b.o /\ b.o["data"].t = "obj"
                            /\ b.o["data"] # JObj(<<>>)) => r.data = b.o["data"]
            /\ o.kind \in Classes =>
                    /\ ~r.success
                    /\ \A o2 \in UpstreamOutcomes :
                         (o2.kind \in Classes /\ o2.kind # o.kind) =>
                            fetch_player_data(call.uid, o2).error # r.error

\* C8 witness: a 200 response flagged successful whose data key holds an
\* empty object; the payload is the whole response.
C8_Witness ==
    /\ call.fn = "fetch_player_data"
    /\ call.out.kind = "http"
    /\ call.out.status = 200
    /\ call.out.body = JObj([success |-> JBool(TRUE), data |-> JObj(<<>>)])
    /\ call.result.success
    /\ call.result.data = call.out.body

\* C9: when the upstream request times out, the final message of the lookup,
\* for a typed identifier and for a refresh, carries the error string
\* "Timeout - Server is slow" verbatim.
C9_TimeoutRendered ==
    ev.upstream = "timeout" =>
        Contains(Last(ev.sent).args, <<"Timeout - Server is slow">>)

\* Whether a source path meets a missing key or a value that is no mapping
RECURSIVE Unresolvable(_, _)
Unresolvable(value, parts) ==
    IF parts = <<>> THEN FALSE
    ELSE IF value.t # "obj" THEN TRUE
    ELSE IF Head(parts) \notin DOMAIN value.o THEN TRUE
    ELSE Unresolvable(value.o[Head(parts)], Tail(parts))

\* C10: for every successful lookup result and every configured source path,
\* simple or dotted, format_profile returns text, in which a path that meets
\* a missing key or a non-mapping value resolves to "N/A".
C10_MissingFieldsNeverAbort ==
    (call.fn = "format_profile" /\ call.api_result.success) =>
        /\ call.result.ok
        /\ \A f \in ProfileFields :
             Unresolvable(call.api_result.data, call.player_map[f]) =>
                call.result.fields[f] = JStr(<<"N/A">>)

\* The messages that serve an owner's command: the statistics, the usage of
\* /broadcast, the completion report of a broadcast
OwnerServed == {"stats", "broadcast_usage", "broadcast_complete"}

\* C11: the owner's commands (statistics, broadcast) are gated by identity
\* alone. Another user is answered with the command's fixed denial and with
\* nothing else, gets no statistics and causes no broadcast send, whatever
\* the verification state; the owner is served, and neither a membership
\* check runs nor does the store change.
C11_OwnerGate ==
    [][ev'.op \in {"stats", "broadcast"} =>
        /\ ev'.member = "unchecked"
        /\ users' = users
        /\ file' = file
        /\ IF ev'.user # OWNER_ID
           THEN /\ ev'.sent = <<IF ev'.op = "stats" THEN StatsDenied
                                ELSE BroadcastDenied>>
                /\ ev'.ret = FALSE
           ELSE Last(ev'.sent).kind \in OwnerServed]_vars

\* A user who is Verified, but not the owner, is refused a broadcast.
C11_Witness ==
    /\ ev.op = "broadcast"
    /\ ev.user # OWNER_ID
    /\ is_verified(users, ev.user, now)
    /\ ev.sent = <<BroadcastDenied>>

\* The owner, who has no record or whose flag is false, is given the statistics.
C11_OwnerUnverifiedServed ==
    /\ ev.op = "stats"
    /\ ev.user = OWNER_ID
    /\ ~is_verified(users, OWNER_ID, now)
    /\ Last(ev.sent).kind = "stats"

\* C12: a press of verify_now by a user who is not Verified runs the
\* membership check again. When it succeeds the user's record is written
\* with flag true and last_check = now, so the user is Verified and lookups
\* are open to them; when it fails the user is still not Verified and the
\* last message shown is the channel-join prompt, with its verify button.
C12_VerifyNow ==
    [][(ev'.op = "verify_now" /\ ~is_verified(users, ev'.user, now)) =>
        LET u == ev'.user
        IN  /\ ev'.member \in {"yes", "no"}
            /\ IF ev'.member = "yes"
               THEN /\ u \in DOMAIN users'
                    /\ users'[u].verified
                    /\ users'[u].last_check = now'
                    /\ is_verified(users', u, now')
                    /\ ev'.sent = <<Msg("verify_ok", <<>>, {})>>
               ELSE /\ ~is_verified(users', u, now')
                    /\ Last(ev'.sent) = VerifyRequired
                    /\ VERIFY_NOW \in buttons'[u]]_vars

\* A user who is not Verified pressed verify_now, the check failed and the
\* prompt is shown again.
C12_Witness ==
    /\ ev.op = "verify_now"
    /\ ev.member = "no"
    /\ ~is_verified(users, ev.user, now)
    /\ Last(ev.sent) = VerifyRequired

\* A user whose record was stale or false pressed verify_now and passed.
C12_Passed ==
    /\ ev.op = "verify_now"
    /\ ev.member = "yes"
    /\ is_verified(users, ev.user, now)

\* last_check of no record gets smaller in the step
LastCheckKept ==
    \A u \in DOMAIN users \cap DOMAIN users' :
        users'[u].last_check >= users[u].last_check

C14_WritesSerialized ==
    [][tasks'.wrote = "ok" => file' = FileOf(users')]_vars

\* The handlers of both users are in flight, both have written their
\* record, and the file holds the two records.
C14_Witness ==
    /\ tasks.wrote = "ok"
    /\ \A u \in Users : tasks.pc[u] = "replying"
    /\ DOMAIN users = Users
    /\ file = FileOf(users)

\* C15: a storage failure never aborts. A load that fails gives the empty
\* record set. A write that fails in set_verified or remove_user is
\* swallowed: the record set of the memory carries the mutation whatever the
\* write did, and the handler goes on as after a write that succeeded
\* (/start welcomes, a valid identifier is fetched and rendered, verify_now
\* confirms).
C15_StorageFailuresSwallowed ==
    [][LET e == ev'
           u == e.user
       IN  /\ (e.op = "restart" /\ ~file.ok) => users' = NoUsers
           /\ e.op \in {"start", "handle_uid"} =>
                  users' = set_verified(users, u, e.member = "yes", now)
           /\ (e.op = "verify_now" /\ e.member = "yes") =>
                  users' = set_verified(users, u, TRUE, now)
           /\ (e.op = "remove_user" /\ e.ret) => users' = remove_user(users, u)
           /\ (e.op = "start" /\ e.member = "yes") =>
                  e.sent = <<Msg("welcome", <<>>, {})>>
           /\ (e.op = "verify_now" /\ e.member = "yes") =>
                  e.sent = <<Msg("verify_ok", <<>>, {})>>
           /\ (e.op = "handle_uid" /\ e.member = "yes"
                   /\ validate_uid(e.uid) = "ok") =>
                  /\ e.fetched = <<e.uid>>
                  /\ Len(e.sent) = 2
                  /\ Last(e.sent).kind \in {"profile", "format_failed", "fetch_error"}
      ]_vars

\* A lookup was fetched and rendered although the write of the user's
\* record failed: the file does not hold the record set of the memory.
C15_Witness ==
    /\ ev.op = "handle_uid"
    /\ ev.fetched # <<>>
    /\ Last(ev.sent).kind = "profile"
    /\ file # FileOf(users)
    /\ ev.user \in DOMAIN users
    /\ users[ev.user].last_check = now

\* The process was started on a file that does not parse, and the store is empty.
C15_LoadFailed ==
    /\ ev.op = "restart"
    /\ ~file.ok
    /\ users = NoUsers

\* C16: a press of a refresh button runs the lookup again for the identifier
\* carried in the payload of the button: one fetch of that identifier, whose
\* result replaces the refreshing message; no membership check runs, and the
\* record store and the file are left as they were.
C16_RefreshFrame ==
    [][ev'.op = "refresh" =>
        /\ RefreshPayload(ev'.uid) \in buttons[ev'.user]
        /\ ev'.fetched = <<ev'.uid>>
        /\ ev'.sent[1] = Msg("refreshing", <<ev'.uid>>, {})
        /\ Len(ev'.sent) = 2
        /\ ev'.member = "unchecked"
        /\ users' = users
        /\ file' = file]_vars

\* A refresh rendered a profile for a user whose record was stale, and the
\* record is still the stale one.
C16_Witness ==
    /\ ev.op = "refresh"
    /\ Last(ev.sent).kind = "profile"
    /\ ev.user \in DOMAIN users
    /\ now - users[ev.user].last_check > CHECK_INTERVAL
    /\ file = FileOf(users)

\* The handler of the lookup has ended, by returning or with an exception
LookupEnded == tasks.lookup.pc \in {"done", "raised"}

\* The three messages that end a lookup according to C17
TerminalRenders == {"profile", "format_failed", "fetch_error"}

\* C17 as stated: a lookup that has shown its waiting message ends with the
\* waiting message replaced by the profile with its buttons, by the
\* format-failure message or by the error message with the reason of the
\* fetch; it is never left waiting.
C17_LookupCompletes ==
    LookupEnded =>
        /\ tasks.lookup.shown.kind \in TerminalRenders
        /\ tasks.lookup.shown = tasks.lookup.render

\* C17, amended: a lookup that has shown its waiting message ends after one
\* or two edits. When the edit of the result returns, the waiting message is
\* replaced by that result: the profile with its buttons, the format-failure
\* message or the error message with the reason of the fetch. When it
\* raises, the except branch replaces the waiting message by the
\* unexpected-error message; when that edit raises too, the handler ends
\* with the waiting message still shown.
C17_LookupEnds ==
    /\ [](LookupEnded =>
            LET l == tasks.lookup
            IN  /\ l.render.kind \in TerminalRenders
                /\ l.render.kind = "profile" =>
                       l.render.keyboard = {RefreshPayload(l.uid), NEW_SEARCH}
                /\ l.render.kind = "fetch_error" => Len(l.render.args) = 2
                /\ l.edits \in {<<TRUE>>, <<FALSE, TRUE>>, <<FALSE, FALSE>>}
                /\ l.edits = <<TRUE>> => l.shown = l.render
                /\ l.edits = <<FALSE, TRUE>> => l.shown.kind = "unexpected_error"
                /\ l.edits = <<FALSE, FALSE>> => l.shown.kind = "waiting")
    /\ (tasks.lookup.pc = "rendering" ~> LookupEnded)

\* The edit of a profile raised and the lookup ended with the
\* unexpected-error message.
C17_Witness ==
    /\ tasks.lookup.pc = "done"
    /\ tasks.lookup.render.kind = "profile"
    /\ tasks.lookup.edits = <<FALSE, TRUE>>
    /\ tasks.lookup.shown.kind = "unexpected_error"

\* Both edits raised and the waiting message is still shown.
C17_LeftWaiting ==
    /\ tasks.lookup.pc = "raised"
    /\ tasks.lookup.shown.kind = "waiting"

\* C18: every update that is refused because the membership check of its
\* user failed is answered with the channel-join prompt, for a typed
\* identifier and for /start alike.
C18_RefusalShowsPrompt ==
    (ev.op \in {"start", "handle_uid"} /\ ev.member = "no") =>
        /\ ev.sent # <<>>
        /\ Last(ev.sent) = VerifyRequired

\* The part of C18 that the code keeps: a typed identifier of a user who is
\* no member is answered with the prompt.
C18_TypedRefusalShowsPrompt ==
    (ev.op = "handle_uid" /\ ev.member = "no") => ev.sent = <<VerifyRequired>>

\* C19: after a handler has run a membership check for a user (/start, a
\* typed identifier, verify_now), the verified flag of the user's record is
\* the outcome of that check.
C19_FlagIsLatestCheck ==
    (ev.op \in {"start", "handle_uid", "verify_now"} /\ ev.member \in {"yes", "no"}) =>
        /\ ev.user \in DOMAIN users
        /\ users[ev.user].verified = (ev.member = "yes")

\* The consequence C19 draws: a broadcast that follows a failed check of a
\* user does not send to that user.
C19_FailedNotTargeted ==
    [][(/\ ev.op \in {"start", "handle_uid", "verify_now"}
        /\ ev.member = "no"
        /\ ev'.op = "broadcast"
        /\ Last(ev'.sent).kind = "broadcast_complete")
       => ev.user \notin ev'.ret.tried]_vars

\* The part of C19 that the code keeps: /start and a typed identifier write
\* the outcome of their check.
C19_VerifyUserWritesOutcome ==
    (ev.op \in {"start", "handle_uid"} /\ ev.member \in {"yes", "no"}) =>
        /\ ev.user \in DOMAIN users
        /\ users[ev.user].verified = (ev.member = "yes")

\* C20: a broadcast started by the owner with a message ends with its
\* completion report, also when updates of other users are handled while it
\* is suspended at a send or at its delay: the handler does not end with an
\* exception, and when the report is made every record has been visited,
\* each record that was flagged has had one send attempted, and
\* sent + failed is the number of those attempts.
C20_BroadcastCompletes ==
    /\ tasks.bc.pc # "crashed"
    /\ tasks.bc.pc \in {"reporting", "done"} =>
        /\ tasks.bc.todo = {}
        /\ tasks.bc.sent + tasks.bc.failed = Cardinality(tasks.bc.tried)

\* The part of C20 that the code keeps: a broadcast that reaches its report
\* has counted every attempt, a failed one too.
C20_ReportCountsAttempts ==
    tasks.bc.pc \in {"reporting", "done"} =>
        /\ tasks.bc.todo = {}
        /\ tasks.bc.sent + tasks.bc.failed = Cardinality(tasks.bc.tried)

\* A broadcast went on after a send that failed and made its report.
C20_FailedSendGoesOn ==
    /\ tasks.bc.pc = "done"
    /\ tasks.bc.failed = 1
    /\ tasks.bc.sent = 1

====
